---- MODULE Spec2Model ----
(***************************************************************************)
(* Model of @enc/core: the profile builders, the key provisioner, the      *)
(* usage-validated dispatcher (encrypt, decrypt, sign, verify) and the key  *)
(* exporter, together with the WebCrypto engine (crypto.subtle) they         *)
(* delegate to.  The library keeps no state of its own: the state of the    *)
(* model is what a caller holds (its keys and the outcome of its last       *)
(* call) and the locals of the example script main.ts.                      *)
(*                                                                         *)
(* Records are written with their fields in the model checker's canonical  *)
(* field order (the order in which the names first occur in this module),  *)
(* so a record value is already in normal form when it is built.           *)
(***************************************************************************)
EXTENDS Integers, Sequences, FiniteSets, TLC

VARIABLES keys, call, main

vars == <<keys, call, main>>

(***************************************************************************)
(* Bounds                                                                  *)
(***************************************************************************)
\* longest text (in characters) a caller passes as data
MaxTextLen == 1
\* number of distinct key materials the engine can draw from
MaxId == 2

(***************************************************************************)
(* Small helpers                                                           *)
(***************************************************************************)
\* Array.prototype.includes
Includes(arr, x) == \E i \in DOMAIN arr : arr[i] = x

Range(arr) == {arr[i] : i \in DOMAIN arr}

\* a missing optional argument (string-valued and number-valued)
undefined == "undefined"
undefinedNumber == 0

\* the object spread { ...a, ...o }: fields of o win over fields of a
Merge(a, o) ==
  [f \in (DOMAIN a) \cup (DOMAIN o) |-> IF f \in DOMAIN o THEN o[f] ELSE a[f]]

\* the characters texts are made of: one ASCII, one two-byte code point
Alphabet == {72, 233}

RECURSIVE TextsOfLen(_)
TextsOfLen(n) ==
  IF n = 0 THEN {<<>>}
  ELSE {<<c>> \o t : c \in Alphabet, t \in TextsOfLen(n - 1)}

Texts == UNION {TextsOfLen(n) : n \in 0..MaxTextLen}

\* new TextEncoder().encode(s): UTF-8 of the code points of s
RECURSIVE TextEncoder(_)
TextEncoder(s) ==
  IF s = <<>> THEN <<>>
  ELSE LET c == Head(s)
       IN (IF c < 128 THEN <<c>>
           ELSE <<192 + (c \div 64), 128 + (c % 64)>>) \o TextEncoder(Tail(s))

(***************************************************************************)
(* Values a caller can hold                                                *)
(***************************************************************************)
NoValue == [kind |-> "none"]
Str(s) == [kind |-> "str", chars |-> s]
Bytes(b) == [kind |-> "bytes", bytes |-> b]
Bool(b) == [kind |-> "bool", b |-> b]

\* Payload without the encoding of textual data
Payload_unencoded(data) == data

\* data instanceof ArrayBuffer ? data : new TextEncoder().encode(data)
Payload(data) ==
  IF data.kind = "str" THEN Bytes(TextEncoder(data.chars)) ELSE data

(***************************************************************************)
(* Profile builders (generate.ts)                                          *)
(***************************************************************************)
ecKey(purpose, curve) ==
  LET c == IF curve = undefined THEN "P-256" ELSE curve
  IN [algorithm |-> [name |-> IF purpose = "Signing" THEN "ECDSA" ELSE "ECDH",
                     namedCurve |-> c],
      extractable |-> TRUE,
      keyUsages |-> IF purpose = "Signing"
                    THEN <<"sign", "verify">>
                    ELSE <<"deriveKey", "deriveBits">>]

rsaKey(purpose, length, hash) ==
  LET l == IF length = undefinedNumber THEN 2048 ELSE length
      h == IF hash = undefined THEN "SHA-256" ELSE hash
  IN [algorithm |-> [name |-> IF purpose = "Signing" THEN "RSA-PSS" ELSE "RSA-OAEP",
                     hash |-> h,
                     modulusLength |-> l,
                     publicExponent |-> <<1, 0, 1>>],
      extractable |-> TRUE,
      keyUsages |-> IF purpose = "Signing"
                    THEN <<"sign", "verify">>
                    ELSE <<"encrypt", "decrypt", "wrapKey", "unwrapKey">>]

hmacKey(hash, length) ==
  LET h == IF hash = undefined THEN "SHA-256" ELSE hash
  IN [algorithm |-> [name |-> "HMAC", length |-> length, hash |-> h],
      extractable |-> TRUE,
      keyUsages |-> <<"sign", "verify">>]

\* aesKey with the names of the two encryption purposes exchanged
aesKey_exchanged(purpose, length) ==
  LET l == IF length = undefinedNumber THEN 256 ELSE length
  IN [algorithm |-> [name |-> IF purpose = "Wrapping" THEN "AES-KW"
                              ELSE IF purpose = "Integrity protection" THEN "AES-GCM"
                              ELSE IF purpose = "Fixed length encryption" THEN "AES-CTR"
                              ELSE "AES-CBC",
                     length |-> l],
      extractable |-> TRUE,
      keyUsages |-> IF purpose = "Wrapping"
                    THEN <<"wrapKey", "unwrapKey">>
                    ELSE <<"encrypt", "decrypt">>]

aesKey(purpose, length) ==
  LET l == IF length = undefinedNumber THEN 256 ELSE length
  IN [algorithm |-> [name |-> IF purpose = "Wrapping" THEN "AES-KW"
                              ELSE IF purpose = "Integrity protection" THEN "AES-GCM"
                              ELSE IF purpose = "Fixed length encryption" THEN "AES-CBC"
                              ELSE "AES-CTR",
                     length |-> l],
      extractable |-> TRUE,
      keyUsages |-> IF purpose = "Wrapping"
                    THEN <<"wrapKey", "unwrapKey">>
                    ELSE <<"encrypt", "decrypt">>]

edKey ==
  [algorithm |-> [name |-> "Ed25519"],
   extractable |-> TRUE,
   keyUsages |-> <<"sign", "verify">>]

xKey ==
  [algorithm |-> [name |-> "X25519"],
   extractable |-> TRUE,
   keyUsages |-> <<"deriveKey", "deriveBits">>]

\* the argument values the builders are called with
EcPurposes == {"Signing", "Encrypting"}
RsaPurposes == {"Signing", "Encrypting"}
AesPurposes == {"Wrapping", "Fixed length encryption",
                "Variable length encryption", "Integrity protection"}
Curves == {undefined, "P-256", "P-384", "P-521"}
Hashes == {undefined, "SHA-256", "SHA-384", "SHA-512"}
RsaLengths == {undefinedNumber, 2048, 4096}
AesLengths == {undefinedNumber, 128, 192, 256}
HmacLengths == {undefinedNumber, 256}

\* the profiles of the generateKey test, all built with default tunables
TestProfiles ==
  {rsaKey("Encrypting", undefinedNumber, undefined),
   rsaKey("Signing", undefinedNumber, undefined),
   aesKey("Wrapping", undefinedNumber),
   aesKey("Fixed length encryption", undefinedNumber),
   aesKey("Variable length encryption", undefinedNumber),
   aesKey("Integrity protection", undefinedNumber),
   hmacKey("SHA-256", undefinedNumber),
   ecKey("Encrypting", undefined),
   ecKey("Signing", undefined),
   edKey,
   xKey}

(***************************************************************************)
(* The engine: crypto.subtle, at the level the library depends on it.      *)
(* A key is [algorithm, type, extractable, usages, id]; id stands for the  *)
(* key material (both halves of a pair carry the same id).  An engine      *)
(* operation yields [call, ok, value]: the invocation as the engine saw    *)
(* it, whether its promise resolves, and the resolved value.               *)
(***************************************************************************)
Ids == 1..MaxId

Family(name) ==
  CASE name \in {"RSA-OAEP", "RSA-PSS"} -> "RSA"
    [] name \in {"ECDSA", "ECDH"} -> "EC"
    [] name = "Ed25519" -> "Ed"
    [] name = "X25519" -> "X"
    [] name \in {"AES-CTR", "AES-CBC", "AES-GCM", "AES-KW"} -> "AES"
    [] name = "HMAC" -> "HMAC"
    [] OTHER -> "unknown"

Asymmetric(name) == Family(name) \in {"RSA", "EC", "Ed", "X"}

\* the usages the engine accepts for a key of the given algorithm and type
EngineUsages(name, type) ==
  CASE type = "public" /\ name = "RSA-OAEP" -> {"encrypt", "wrapKey"}
    [] type = "private" /\ name = "RSA-OAEP" -> {"decrypt", "unwrapKey"}
    [] type = "public" /\ name \in {"RSA-PSS", "ECDSA", "Ed25519"} -> {"verify"}
    [] type = "private" /\ name \in {"RSA-PSS", "ECDSA", "Ed25519"} -> {"sign"}
    [] type = "public" /\ name \in {"ECDH", "X25519"} -> {}
    [] type = "private" /\ name \in {"ECDH", "X25519"} -> {"deriveKey", "deriveBits"}
    [] type = "secret" /\ name \in {"AES-CTR", "AES-CBC", "AES-GCM"}
         -> {"encrypt", "decrypt", "wrapKey", "unwrapKey"}
    [] type = "secret" /\ name = "AES-KW" -> {"wrapKey", "unwrapKey"}
    [] type = "secret" /\ name = "HMAC" -> {"sign", "verify"}
    [] OTHER -> {}

Restrict(usages, allowed) ==
  LET Keep(u) == u \in allowed IN SelectSeq(usages, Keep)

\* the block size the engine gives an HMAC key generated without a length
HmacBlockSize(hash) == IF hash = "SHA-256" THEN 512 ELSE 1024

\* the algorithm attribute of a key created from the given descriptor
KeyAlgorithm(algorithm) ==
  IF algorithm.name = "HMAC" /\ algorithm.length = undefinedNumber
  THEN [algorithm EXCEPT !.length = HmacBlockSize(algorithm.hash)]
  ELSE algorithm

Key(algorithm, type, extractable, usages, id) ==
  [algorithm |-> algorithm, extractable |-> extractable, type |-> type,
   usages |-> usages, id |-> id]

Rejected(c) == [call |-> c, ok |-> FALSE, value |-> NoValue]
Resolved(c, v) == [call |-> c, ok |-> TRUE, value |-> v]

\* crypto.subtle.generateKey; id is the material the engine draws
engineGenerateKey(algorithm, extractable, usages, id) ==
  LET c == [algorithm |-> algorithm, extractable |-> extractable,
            usages |-> usages, fn |-> "generateKey"]
      name == algorithm.name
      alg == KeyAlgorithm(algorithm)
      pubU == Restrict(usages, EngineUsages(name, "public"))
      privU == Restrict(usages, EngineUsages(name, "private"))
  IN IF Asymmetric(name)
     THEN IF Range(usages) \subseteq
               EngineUsages(name, "public") \cup EngineUsages(name, "private")
             /\ privU # <<>>
          THEN Resolved(c, [kind |-> "pair",
                            publicKey |-> Key(alg, "public", TRUE, pubU, id),
                            privateKey |-> Key(alg, "private", extractable, privU, id)])
          ELSE Rejected(c)
     ELSE IF Range(usages) \subseteq EngineUsages(name, "secret") /\ usages # <<>>
          THEN Resolved(c, [kind |-> "key",
                            key |-> Key(alg, "secret", extractable, usages, id)])
          ELSE Rejected(c)

\* the formats the engine can serialise a key of this algorithm and type to
ExportFormats(name, type) ==
  CASE type = "public" /\ Family(name) = "RSA" -> {"jwk", "spki"}
    [] type = "public" -> {"jwk", "spki", "raw"}
    [] type = "private" -> {"jwk", "pkcs8"}
    [] OTHER -> {"jwk", "raw"}

\* crypto.subtle.exportKey; the serialised key remembers the key it is of
engineExportKey(format, key) ==
  LET c == [fn |-> "exportKey", key |-> key, format |-> format]
  IN IF key.extractable /\ format \in ExportFormats(key.algorithm.name, key.type)
     THEN Resolved(c, [kind |-> "blob", format |-> format, of |-> key])
     ELSE Rejected(c)

\* whether serialised material of key src can be read under the descriptor
MaterialFits(format, src, algorithm) ==
  LET a == src.algorithm
  IN /\ Family(algorithm.name) = Family(a.name)
     /\ Family(a.name) = "EC" => algorithm.namedCurve = a.namedCurve
     /\ (format = "jwk" /\ Family(a.name) \in {"RSA", "HMAC"})
           => algorithm.name = a.name /\ algorithm.hash = a.hash
     /\ (format = "jwk" /\ Family(a.name) = "AES") => algorithm.name = a.name

\* the algorithm attribute of a key imported from material of key src
ImportedAlgorithm(src, algorithm) ==
  IF "hash" \in DOMAIN src.algorithm
  THEN [src.algorithm EXCEPT !.name = algorithm.name, !.hash = algorithm.hash]
  ELSE [src.algorithm EXCEPT !.name = algorithm.name]

\* crypto.subtle.importKey
engineImportKey(format, material, algorithm, extractable, usages) ==
  LET c == [algorithm |-> algorithm, extractable |-> extractable, usages |-> usages,
            fn |-> "importKey", format |-> format,
            material |-> material]
  IN IF material.kind = "blob"
     THEN LET src == material.of
              type == src.type
          IN IF /\ material.format = format
                /\ MaterialFits(format, src, algorithm)
                /\ Range(usages) \subseteq EngineUsages(algorithm.name, type)
                /\ type \in {"private", "secret"} => usages # <<>>
                /\ format = "jwk" => Range(usages) \subseteq Range(src.usages)
             THEN Resolved(c, [kind |-> "key",
                               key |-> Key(ImportedAlgorithm(src, algorithm),
                                           type, extractable, usages, src.id)])
             ELSE Rejected(c)
     ELSE Rejected(c)

\* the parameters the engine requires in the descriptor of an operation
ParamsPresent(algorithm) ==
  CASE algorithm.name \in {"AES-CBC", "AES-GCM"} -> "iv" \in DOMAIN algorithm
    [] algorithm.name = "AES-CTR" -> {"counter", "length"} \subseteq DOMAIN algorithm
    [] algorithm.name = "RSA-PSS" -> "saltLength" \in DOMAIN algorithm
    [] algorithm.name = "ECDSA" -> "hash" \in DOMAIN algorithm
    [] OTHER -> TRUE

\* the parameters a ciphertext or signature depends on
Tunables(algorithm) ==
  CASE algorithm.name \in {"AES-CBC", "AES-GCM"} -> algorithm.iv
    [] algorithm.name = "AES-CTR" -> algorithm.counter
    [] algorithm.name = "RSA-PSS" -> algorithm.saltLength
    [] OTHER -> 0

\* what the engine checks of the descriptor and key before any operation
EngineAccepts(algorithm, key, usage, names) ==
  /\ algorithm.name = key.algorithm.name
  /\ algorithm.name \in names
  /\ Includes(key.usages, usage)
  /\ ParamsPresent(algorithm)

EngineCipherNames == {"RSA-OAEP", "AES-CTR", "AES-CBC", "AES-GCM"}
EngineSignNames == {"RSA-PSS", "ECDSA", "HMAC", "Ed25519"}

\* crypto.subtle.encrypt
engineEncrypt(algorithm, key, data) ==
  LET c == [data |-> data, algorithm |-> algorithm, fn |-> "encrypt", key |-> key]
  IN IF EngineAccepts(algorithm, key, "encrypt", EngineCipherNames)
     THEN Resolved(c, [kind |-> "ct", name |-> key.algorithm.name, id |-> key.id,
                       plain |-> data, tun |-> Tunables(algorithm)])
     ELSE Rejected(c)

\* crypto.subtle.decrypt
engineDecrypt(algorithm, key, data) ==
  LET c == [data |-> data, algorithm |-> algorithm, fn |-> "decrypt", key |-> key]
  IN IF EngineAccepts(algorithm, key, "decrypt", EngineCipherNames)
        /\ data.kind = "ct"
     THEN IF /\ data.name = key.algorithm.name
             /\ data.id = key.id
             /\ data.tun = Tunables(algorithm)
          THEN Resolved(c, data.plain)
          ELSE Rejected(c)
     ELSE Rejected(c)

\* crypto.subtle.sign
engineSign(algorithm, key, data) ==
  LET c == [data |-> data, algorithm |-> algorithm, fn |-> "sign", key |-> key]
  IN IF EngineAccepts(algorithm, key, "sign", EngineSignNames)
     THEN Resolved(c, [kind |-> "sig", name |-> key.algorithm.name, id |-> key.id,
                       tun |-> Tunables(algorithm), msg |-> data])
     ELSE Rejected(c)

\* crypto.subtle.verify
engineVerify(algorithm, key, signature, data) ==
  LET c == [data |-> data, algorithm |-> algorithm, fn |-> "verify",
            key |-> key, signature |-> signature]
  IN IF EngineAccepts(algorithm, key, "verify", EngineSignNames)
     THEN Resolved(c, Bool(/\ signature.kind = "sig"
                           /\ signature.name = key.algorithm.name
                           /\ signature.id = key.id
                           /\ signature.msg = data
                           /\ signature.tun = Tunables(algorithm)))
     ELSE Rejected(c)

(***************************************************************************)
(* The library.  Every function yields an outcome [channel, error, value,  *)
(* engine]: channel is "thrown" when the function throws before returning  *)
(* a promise, "rejected" or "resolved" for the promise it returns, and      *)
(* "returned" for a synchronous result; engine lists the engine            *)
(* invocations the call made.                                              *)
(***************************************************************************)
Thrown(message) ==
  [value |-> NoValue, channel |-> "thrown", error |-> message, engine |-> <<>>]

\* return crypto.subtle.f(...): the engine's promise is the call's promise
Delegated(r) ==
  [value |-> r.value,
   channel |-> IF r.ok THEN "resolved" ELSE "rejected",
   error |-> IF r.ok THEN "none" ELSE "EngineFailure",
   engine |-> <<r.call>>]

Returned(v) ==
  [value |-> v, channel |-> "returned", error |-> "none", engine |-> <<>>]

\* extractable !== undefined ? extractable : options.extractable
EffectiveExtractable(options, extractable) ==
  IF extractable # undefined THEN extractable = "true" ELSE options.extractable

EncryptAllowed == <<"RSA-OAEP", "AES-CTR", "AES-CBC", "AES-GCM">>
SignAllowed == <<"RSA-PSS", "ECDSA", "HMAC", "Ed25519">>

\* encrypt checking the usage before the algorithm
encrypt_usageFirst(data, key, options) ==
  LET algorithm == Merge(key.algorithm, options)
  IN IF ~Includes(key.usages, "encrypt")
     THEN Thrown("Key does not support encryption")
     ELSE IF ~Includes(EncryptAllowed, key.algorithm.name)
     THEN Thrown("Unsupported algorithm")
     ELSE Delegated(engineEncrypt(algorithm, key, Payload(data)))

encrypt(data, key, options) ==
  LET algorithm == Merge(key.algorithm, options)
  IN IF ~Includes(EncryptAllowed, key.algorithm.name)
     THEN Thrown("Unsupported algorithm")
     ELSE IF ~Includes(key.usages, "encrypt")
     THEN Thrown("Key does not support encryption")
     ELSE Delegated(engineEncrypt(algorithm, key, Payload(data)))

\* decrypt invoking the engine before it validates the key
decrypt_engineFirst(data, key, options) ==
  LET algorithm == Merge(key.algorithm, options)
      r == engineDecrypt(algorithm, key, Payload(data))
  IN IF ~Includes(EncryptAllowed, key.algorithm.name)
     THEN [Thrown("Unsupported algorithm") EXCEPT !.engine = <<r.call>>]
     ELSE IF ~Includes(key.usages, "decrypt")
     THEN [Thrown("Key does not support decryption") EXCEPT !.engine = <<r.call>>]
     ELSE Delegated(r)

decrypt(data, key, options) ==
  LET algorithm == Merge(key.algorithm, options)
  IN IF ~Includes(EncryptAllowed, key.algorithm.name)
     THEN Thrown("Unsupported algorithm")
     ELSE IF ~Includes(key.usages, "decrypt")
     THEN Thrown("Key does not support decryption")
     ELSE Delegated(engineDecrypt(algorithm, key, Payload(data)))

\* sign leaving the usage check to the engine
sign_noUsageCheck(data, key, options) ==
  LET algorithm == Merge(key.algorithm, options)
  IN IF ~Includes(SignAllowed, key.algorithm.name)
     THEN Thrown("Unsupported algorithm")
     ELSE Delegated(engineSign(algorithm, key, Payload(data)))

sign(data, key, options) ==
  LET algorithm == Merge(key.algorithm, options)
  IN IF ~Includes(SignAllowed, key.algorithm.name)
     THEN Thrown("Unsupported algorithm")
     ELSE IF ~Includes(key.usages, "sign")
     THEN Thrown("Key does not support signing")
     ELSE Delegated(engineSign(algorithm, key, Payload(data)))

\* verify answering false for a key that may not verify
verify_swallowed(data, key, signature, options) ==
  LET algorithm == Merge(key.algorithm, options)
  IN IF ~Includes(SignAllowed, key.algorithm.name)
     THEN Thrown("Unsupported algorithm")
     ELSE IF ~Includes(key.usages, "verify")
     THEN [value |-> Bool(FALSE), channel |-> "resolved", error |-> "none",
           engine |-> <<>>]
     ELSE Delegated(engineVerify(algorithm, key, signature, Payload(data)))

verify(data, key, signature, options) ==
  LET algorithm == Merge(key.algorithm, options)
  IN IF ~Includes(SignAllowed, key.algorithm.name)
     THEN Thrown("Unsupported algorithm")
     ELSE IF ~Includes(key.usages, "verify")
     THEN Thrown("Key does not support verifying")
     ELSE Delegated(engineVerify(algorithm, key, signature, Payload(data)))

\* id is the key material the engine draws for the new key
generateKey(options, extractable, id) ==
  Delegated(engineGenerateKey(options.algorithm,
                              EffectiveExtractable(options, extractable),
                              options.keyUsages, id))

\* exportKey without the extractability gate
exportKey_ungated(format, key) ==
  IF format = "jwk"
  THEN Delegated(engineExportKey("jwk", key))
  ELSE Delegated(engineExportKey(format, key))

exportKey(format, key) ==
  IF ~key.extractable
  THEN Thrown("Key does not support exporting")
  ELSE IF format = "jwk"
  THEN Delegated(engineExportKey("jwk", key))
  ELSE Delegated(engineExportKey(format, key))

\* importKey whose public filter forgets decrypt
importKey_keepsDecrypt(format, type, key, options, extractable) ==
  LET Keep(usage) ==
        IF type = "public" /\ (usage = "sign" \/ usage = "unwrapKey")
        THEN FALSE
        ELSE IF type = "private"
                /\ (usage = "verify" \/ usage = "wrapKey" \/ usage = "encrypt")
        THEN FALSE
        ELSE TRUE
      keyUsages == SelectSeq(options.keyUsages, Keep)
  IN Delegated(engineImportKey(format, key, options.algorithm,
                               EffectiveExtractable(options, extractable),
                               keyUsages))

importKey(format, type, key, options, extractable) ==
  LET Keep(usage) ==
        IF type = "public" /\ (usage = "sign" \/ usage = "unwrapKey" \/ usage = "decrypt")
        THEN FALSE
        ELSE IF type = "private"
                /\ (usage = "verify" \/ usage = "wrapKey" \/ usage = "encrypt")
        THEN FALSE
        ELSE TRUE
      keyUsages == SelectSeq(options.keyUsages, Keep)
  IN IF format = "jwk"
     THEN Delegated(engineImportKey(format, key, options.algorithm,
                                    EffectiveExtractable(options, extractable),
                                    keyUsages))
     ELSE Delegated(engineImportKey(format, key, options.algorithm,
                                    EffectiveExtractable(options, extractable),
                                    keyUsages))

\* the error kinds of the error messages
ErrorKind(message) ==
  CASE message = "Unsupported algorithm" -> "UnsupportedAlgorithm"
    [] message \in {"Key does not support encryption",
                    "Key does not support decryption",
                    "Key does not support signing",
                    "Key does not support verifying"} -> "UsageDenied"
    [] message = "Key does not support exporting" -> "NotExtractable"
    [] message = "EngineFailure" -> "EngineFailure"
    [] OTHER -> "none"

(***************************************************************************)
(* The caller: the keys it holds and its last call (the function, its key  *)
(* and option arguments, its outcome).  A call that resolves to a key or   *)
(* a pair replaces the keys held; the value of the last call is what the   *)
(* next call can be given.                                                 *)
(***************************************************************************)
Formats == {"jwk", "raw", "spki", "pkcs8"}
KeyTypes == {"public", "private", "secret"}
ExtractableArgs == {undefined, "true", "false"}

\* the options objects callers pass to encrypt, decrypt, sign and verify
OperationOptions ==
  << <<>>,
     [iv |-> 1],
     [length |-> 64, counter |-> 1],
     [saltLength |-> 32],
     [hash |-> "SHA-256"],
     [name |-> "AES-CBC", iv |-> 1],
     [usages |-> <<"encrypt", "decrypt", "sign", "verify">>] >>

\* profiles written by hand rather than by a builder
CustomProfiles ==
  {[algorithm |-> rsaKey("Signing", undefinedNumber, undefined).algorithm,
    extractable |-> FALSE,
    keyUsages |-> <<"sign", "verify", "encrypt">>],
   [algorithm |-> edKey.algorithm,
    extractable |-> TRUE,
    keyUsages |-> <<"sign">>]}

\* the profiles a caller imports material with
ImportProfiles(material) ==
  CustomProfiles \cup
  {p \in TestProfiles :
     Family(p.algorithm.name) = Family(material.of.algorithm.name)}

NoCall == [op |-> "none", args |-> <<>>, out |-> Returned(NoValue)]

Held == call.out.value

TextInputs == {Str(t) : t \in Texts}

\* what the caller holds that is an ArrayBuffer
BinaryHeld ==
  IF Held.kind \in {"bytes", "ct", "sig"}
     \/ (Held.kind = "blob" /\ Held.format # "jwk")
  THEN {Held} ELSE {}

PlainHeld == IF Held.kind = "bytes" THEN {Held} ELSE {}

\* what the caller holds that is a serialised key
MaterialHeld == IF Held.kind = "blob" THEN {Held} ELSE {}

\* the keys held after a call with the given outcome
KeysAfter(out) ==
  IF out.channel = "resolved" /\ out.value.kind = "pair"
  THEN <<out.value.publicKey, out.value.privateKey>>
  ELSE IF out.channel = "resolved" /\ out.value.kind = "key"
  THEN <<out.value.key>>
  ELSE keys

\* the material of a new key: the first the caller does not hold already
FreshId(held) ==
  CHOOSE id \in Ids \ held : \A other \in Ids \ held : id <= other

HeldIds == {keys[i].id : i \in DOMAIN keys}

MainIdle == [pc |-> "idle"]

Init ==
  /\ keys = <<>>
  /\ call = NoCall
  /\ main = MainIdle

Calls(op, args, out) ==
  /\ call' = [op |-> op, args |-> args, out |-> out]
  /\ keys' = KeysAfter(out)
  /\ UNCHANGED main

GenerateKey(options, extractable) ==
  Calls("generateKey", [extractable |-> extractable, options |-> options],
        generateKey(options, extractable, FreshId(HeldIds)))

GenerateTest ==
  \E options \in TestProfiles, extractable \in ExtractableArgs :
    GenerateKey(options, extractable)

Encrypt ==
  \E i \in DOMAIN keys, data \in TextInputs \cup PlainHeld,
     o \in DOMAIN OperationOptions :
    Calls("encrypt", [key |-> keys[i], options |-> OperationOptions[o]],
          encrypt(data, keys[i], OperationOptions[o]))

Decrypt ==
  \E i \in DOMAIN keys, data \in TextInputs \cup BinaryHeld,
     o \in DOMAIN OperationOptions :
    Calls("decrypt", [key |-> keys[i], options |-> OperationOptions[o]],
          decrypt(data, keys[i], OperationOptions[o]))

Sign ==
  \E i \in DOMAIN keys, data \in TextInputs \cup PlainHeld,
     o \in DOMAIN OperationOptions :
    Calls("sign", [key |-> keys[i], options |-> OperationOptions[o]],
          sign(data, keys[i], OperationOptions[o]))

Verify ==
  \E i \in DOMAIN keys, data \in TextInputs, signature \in BinaryHeld,
     o \in DOMAIN OperationOptions :
    Calls("verify", [key |-> keys[i], options |-> OperationOptions[o]],
          verify(data, keys[i], signature, OperationOptions[o]))

ExportKey ==
  \E i \in DOMAIN keys, format \in Formats :
    Calls("exportKey", [key |-> keys[i], format |-> format],
          exportKey(format, keys[i]))

ImportKey ==
  \E format \in Formats, type \in KeyTypes, key \in MaterialHeld,
     extractable \in ExtractableArgs :
    \E options \in ImportProfiles(key) :
      Calls("importKey",
            [extractable |-> extractable, type |-> type, key |-> key,
             format |-> format, options |-> options],
            importKey(format, type, key, options, extractable))

Next ==
  \/ GenerateTest
  \/ Encrypt
  \/ Decrypt
  \/ Sign
  \/ Verify
  \/ ExportKey
  \/ ImportKey

Spec == Init /\ [][Next]_vars

(***************************************************************************)
(* The profile builders as calls, and generateKey of a built profile.      *)
(***************************************************************************)
Profile(p) == [kind |-> "profile", profile |-> p]

EcKey ==
  \E purpose \in EcPurposes, curve \in Curves :
    Calls("ecKey", [purpose |-> purpose, curve |-> curve],
          Returned(Profile(ecKey(purpose, curve))))

RsaKey ==
  \E purpose \in RsaPurposes, length \in RsaLengths, hash \in Hashes :
    Calls("rsaKey", [purpose |-> purpose, length |-> length, hash |-> hash],
          Returned(Profile(rsaKey(purpose, length, hash))))

HmacKey ==
  \E hash \in Hashes, length \in HmacLengths :
    Calls("hmacKey", [length |-> length, hash |-> hash],
          Returned(Profile(hmacKey(hash, length))))

AesKey ==
  \E purpose \in AesPurposes, length \in AesLengths :
    Calls("aesKey", [purpose |-> purpose, length |-> length],
          Returned(Profile(aesKey(purpose, length))))

EdKey == Calls("edKey", <<>>, Returned(Profile(edKey)))

XKey == Calls("xKey", <<>>, Returned(Profile(xKey)))

GenerateBuilt ==
  /\ Held.kind = "profile"
  /\ \E extractable \in ExtractableArgs : GenerateKey(Held.profile, extractable)

NextProfiles ==
  \/ EcKey
  \/ RsaKey
  \/ HmacKey
  \/ AesKey
  \/ EdKey
  \/ XKey
  \/ GenerateBuilt

SpecProfiles == Init /\ [][NextProfiles]_vars

(***************************************************************************)
(* The example script main.ts, one action per statement.  An await of a    *)
(* call that throws or rejects ends the script.                            *)
(***************************************************************************)
\* longest text (in characters) the script encrypts
MaxScriptTextLen == 3

ScriptTexts == UNION {TextsOfLen(n) : n \in 0..MaxScriptTextLen}

MainStart(text) ==
  [signature |-> NoValue, pc |-> "encKeys",
   text |-> text, encKeys |-> NoValue,
   sigKeys |-> NoValue, encryptedData |-> NoValue,
   decryptedData |-> NoValue, exportedKey |-> NoValue,
   importedKey |-> NoValue, isValid |-> NoValue]

InitMain ==
  /\ keys = <<>>
  /\ call = NoCall
  /\ main \in {MainStart(text) : text \in ScriptTexts}

\* const x = await f(...)
Await(at, local, out, next) ==
  /\ main.pc = at
  /\ main' = IF out.channel = "resolved"
             THEN [main EXCEPT ![local] = out.value, !.pc = next]
             ELSE [main EXCEPT !.pc = "failed"]
  /\ UNCHANGED <<keys, call>>

MainHeldIds ==
  (IF main.encKeys.kind = "pair" THEN {main.encKeys.publicKey.id} ELSE {})
  \cup (IF main.sigKeys.kind = "pair" THEN {main.sigKeys.publicKey.id} ELSE {})

MainEncKeys ==
  Await("encKeys", "encKeys",
        generateKey(rsaKey("Encrypting", undefinedNumber, undefined), undefined,
                    FreshId(MainHeldIds)),
        "sigKeys")

MainSigKeys ==
  Await("sigKeys", "sigKeys",
        generateKey(rsaKey("Signing", undefinedNumber, undefined), undefined,
                    FreshId(MainHeldIds)),
        "encryptedData")

MainEncrypt ==
  Await("encryptedData", "encryptedData",
        encrypt(Str(main.text), main.encKeys.publicKey, <<>>),
        "decryptedData")

MainDecrypt ==
  Await("decryptedData", "decryptedData",
        decrypt(main.encryptedData, main.encKeys.privateKey, <<>>),
        "signature")

MainSign ==
  Await("signature", "signature",
        sign(main.decryptedData, main.sigKeys.privateKey, [saltLength |-> 32]),
        "exportedKey")

MainExport ==
  Await("exportedKey", "exportedKey",
        exportKey("spki", main.sigKeys.publicKey),
        "importedKey")

MainImport ==
  Await("importedKey", "importedKey",
        importKey("spki", "public", main.exportedKey,
                  rsaKey("Signing", undefinedNumber, undefined), undefined),
        "isValid")

MainVerify ==
  Await("isValid", "isValid",
        verify(main.decryptedData, main.importedKey.key, main.signature,
               [saltLength |-> 32]),
        "done")

NextMain ==
  \/ MainEncKeys
  \/ MainSigKeys
  \/ MainEncrypt
  \/ MainDecrypt
  \/ MainSign
  \/ MainExport
  \/ MainImport
  \/ MainVerify

SpecMain == InitMain /\ [][NextMain]_vars

(***************************************************************************)
(* Properties                                                              *)
(***************************************************************************)
DispatchOps == {"encrypt", "decrypt", "sign", "verify"}
ValidatedOps == DispatchOps \cup {"exportKey"}

\* the allow-list of an operation
AllowList(op) ==
  IF op \in {"encrypt", "decrypt"}
  THEN {"RSA-OAEP", "AES-CTR", "AES-CBC", "AES-GCM"}
  ELSE {"RSA-PSS", "ECDSA", "HMAC", "Ed25519"}

\* whether the key passes the local validation of the operation
PassesValidation(op, key) ==
  IF op = "exportKey" THEN key.extractable
  ELSE key.algorithm.name \in AllowList(op) /\ op \in Range(key.usages)

\* the algorithm name of the table, per builder and purpose
TableName(op, args) ==
  CASE op = "ecKey" /\ args.purpose = "Signing" -> "ECDSA"
    [] op = "ecKey" /\ args.purpose = "Encrypting" -> "ECDH"
    [] op = "rsaKey" /\ args.purpose = "Signing" -> "RSA-PSS"
    [] op = "rsaKey" /\ args.purpose = "Encrypting" -> "RSA-OAEP"
    [] op = "aesKey" /\ args.purpose = "Wrapping" -> "AES-KW"
    [] op = "aesKey" /\ args.purpose = "Integrity protection" -> "AES-GCM"
    [] op = "aesKey" /\ args.purpose = "Fixed length encryption" -> "AES-CBC"
    [] op = "aesKey" /\ args.purpose = "Variable length encryption" -> "AES-CTR"
    [] op = "hmacKey" -> "HMAC"
    [] op = "edKey" -> "Ed25519"
    [] op = "xKey" -> "X25519"

\* the usages of the table, per algorithm name
TableUsages(name) ==
  CASE name \in {"ECDSA", "RSA-PSS", "HMAC", "Ed25519"} -> {"sign", "verify"}
    [] name \in {"ECDH", "X25519"} -> {"deriveKey", "deriveBits"}
    [] name = "RSA-OAEP" -> {"encrypt", "decrypt", "wrapKey", "unwrapKey"}
    [] name = "AES-KW" -> {"wrapKey", "unwrapKey"}
    [] name \in {"AES-GCM", "AES-CBC", "AES-CTR"} -> {"encrypt", "decrypt"}

BuilderOps == {"ecKey", "rsaKey", "aesKey", "hmacKey", "edKey", "xKey"}

\* C1: every profile a builder returns carries the algorithm name and
\* exactly the usages the table gives for its family and purpose, whatever
\* the tunables.
C1_ProfileTable ==
  call.op \in BuilderOps =>
    LET p == call.out.value.profile
    IN /\ p.algorithm.name = TableName(call.op, call.args)
       /\ Range(p.keyUsages) = TableUsages(TableName(call.op, call.args))
       /\ Len(p.keyUsages) = Cardinality(TableUsages(TableName(call.op, call.args)))

C1_Witness ==
  /\ call.op = "aesKey"
  /\ call.args.purpose = "Variable length encryption"
  /\ call.args.length = 128
  /\ call.out.value.profile.algorithm.name = "AES-CTR"

\* C2: a call of encrypt, decrypt, sign or verify with a key whose algorithm
\* name is outside the allow-list of the operation fails with
\* UnsupportedAlgorithm, whatever the usages of the key and the options.
C2_UnsupportedAlgorithm ==
  (call.op \in DispatchOps /\ call.args.key.algorithm.name \notin AllowList(call.op))
    => /\ call.out.channel # "resolved"
       /\ ErrorKind(call.out.error) = "UnsupportedAlgorithm"

C2_Witness ==
  /\ call.op = "encrypt"
  /\ call.args.key.algorithm.name = "HMAC"
  /\ ~Includes(call.args.key.usages, "encrypt")
  /\ call.args.options # <<>>
  /\ ErrorKind(call.out.error) = "UnsupportedAlgorithm"

\* C3: a call of encrypt, decrypt, sign or verify with a key whose algorithm
\* name is allowed but whose usages lack the tag of the operation fails with
\* UsageDenied, whatever the options.
C3_UsageDenied ==
  (/\ call.op \in DispatchOps
   /\ call.args.key.algorithm.name \in AllowList(call.op)
   /\ call.op \notin Range(call.args.key.usages))
    => /\ call.out.channel # "resolved"
       /\ ErrorKind(call.out.error) = "UsageDenied"

C3_Witness ==
  /\ call.op = "sign"
  /\ call.args.key.algorithm.name = "RSA-PSS"
  /\ call.args.key.type = "public"
  /\ "usages" \in DOMAIN call.args.options
  /\ ErrorKind(call.out.error) = "UsageDenied"

\* C4: the descriptor encrypt, decrypt, sign and verify hand to the engine is
\* the key's descriptor overlaid with the options, and its name is the
\* key's own algorithm name, for every options object.
C4_NameNeverOverridden ==
  (call.op \in DispatchOps /\ Len(call.out.engine) = 1)
    => /\ call.out.engine[1].algorithm = Merge(call.args.key.algorithm, call.args.options)
       /\ call.out.engine[1].algorithm.name = call.args.key.algorithm.name

\* the usages importKey removes for a role
RemovedFor(type) ==
  CASE type = "public" -> {"sign", "unwrapKey", "decrypt"}
    [] type = "private" -> {"verify", "wrapKey", "encrypt"}
    [] OTHER -> {}

\* C5: importKey hands the engine the profile's usages without those removed
\* for the role, in their original order, and never fails locally.
C5_RoleFilter ==
  call.op = "importKey" =>
    /\ call.out.channel # "thrown"
    /\ Len(call.out.engine) = 1
    /\ call.out.engine[1].usages =
         Restrict(call.args.options.keyUsages,
                  Range(call.args.options.keyUsages) \ RemovedFor(call.args.type))

C5_Witness ==
  /\ call.op = "importKey"
  /\ call.args.type = "public"
  /\ call.args.options.keyUsages = <<"sign", "verify", "encrypt">>
  /\ call.out.engine[1].usages = <<"verify", "encrypt">>

\* C6: exportKey of a key that is not extractable fails with NotExtractable
\* without invoking the engine, for every format; of an extractable key it
\* invokes the engine's export with the same format and key; and an
\* extractable argument of generateKey or importKey overrides the profile's.
C6_ExtractabilityGate ==
  /\ call.op = "exportKey" =>
       IF call.args.key.extractable
       THEN call.out.engine =
              <<[fn |-> "exportKey", key |-> call.args.key, format |-> call.args.format]>>
       ELSE /\ call.out.channel # "resolved"
            /\ ErrorKind(call.out.error) = "NotExtractable"
            /\ call.out.engine = <<>>
  /\ (call.op \in {"generateKey", "importKey"} /\ call.args.extractable # undefined)
       => call.out.engine[1].extractable = (call.args.extractable = "true")

C6_Witness ==
  /\ call.op = "exportKey"
  /\ call.args.format = "spki"
  /\ call.args.key.type = "public"
  /\ ~call.args.key.extractable
  /\ ErrorKind(call.out.error) = "NotExtractable"

\* the keys generateKey yields from the profiles of the table
GeneratedKeys ==
  UNION {LET v == generateKey(p, e, id).value
         IN IF v.kind = "pair" THEN {v.publicKey, v.privateKey} ELSE {v.key}
         : p \in TestProfiles, e \in ExtractableArgs, id \in Ids}

\* the profile of the table a key was generated from
ProfileOf(key) ==
  CHOOSE p \in TestProfiles : p.algorithm.name = key.algorithm.name

\* an import of what exportKey gave for a generated key, with the format of
\* the export, the role of the key and the profile of the key
RoundTrip ==
  /\ call.op = "importKey"
  /\ call.args.key.of \in GeneratedKeys
  /\ call.args.format = call.args.key.format
  /\ call.args.type = call.args.key.of.type
  /\ call.args.options = ProfileOf(call.args.key.of)

\* C7: importing an exported generated key with its format, its role and its
\* profile yields a key with the algorithm name and the usages of the
\* original.
C7_RoundTrip ==
  RoundTrip =>
    /\ call.out.channel = "resolved"
    /\ call.out.value.key.algorithm.name = call.args.key.of.algorithm.name
    /\ Range(call.out.value.key.usages) = Range(call.args.key.of.usages)

\* C8 as stated: every error of a validated call, local or from the engine,
\* is the failure of the promise the call returns.
C8_AllErrorsRejectPromise ==
  (call.op \in ValidatedOps /\ ErrorKind(call.out.error) # "none")
    => call.out.channel = "rejected"

\* C8 amended: a local validation failure is thrown by the call itself, an
\* engine failure rejects the returned promise; no failure resolves, and a
\* call yields a value exactly when it resolves.
C8_ErrorsSurface ==
  call.op \in ValidatedOps =>
    /\ ~PassesValidation(call.op, call.args.key) =>
         /\ call.out.channel = "thrown"
         /\ ErrorKind(call.out.error)
              \in {"UnsupportedAlgorithm", "UsageDenied", "NotExtractable"}
    /\ PassesValidation(call.op, call.args.key) =>
         call.out.channel \in {"resolved", "rejected"}
    /\ call.out.channel = "rejected" <=> ErrorKind(call.out.error) = "EngineFailure"
    /\ call.out.channel = "resolved" <=> ErrorKind(call.out.error) = "none"
    /\ call.out.channel = "resolved" <=> call.out.value # NoValue

C8_Witness ==
  /\ call.op = "verify"
  /\ "verify" \notin Range(call.args.key.usages)
  /\ call.args.key.algorithm.name = "Ed25519"
  /\ call.out.channel = "thrown"

\* C9: the script runs to its end: decrypt gives back the encoded text, the
\* re-imported public key is an RSA-PSS key that may verify, and verify
\* yields true.
C9_EndToEnd ==
  main.pc # "idle" =>
    /\ main.pc # "failed"
    /\ main.decryptedData # NoValue
         => main.decryptedData = Bytes(TextEncoder(main.text))
    /\ main.importedKey # NoValue
         => /\ main.importedKey.key.algorithm.name = "RSA-PSS"
            /\ Includes(main.importedKey.key.usages, "verify")
    /\ main.isValid # NoValue => main.isValid = Bool(TRUE)

C9_Witness ==
  /\ main.pc = "done"
  /\ main.text = <<72, 233>>
  /\ main.isValid = Bool(TRUE)

\* C10: a validated call invokes the engine not at all when its validation
\* fails and exactly once when it passes, also when the engine fails.
C10_EagerNoRetry ==
  call.op \in ValidatedOps =>
    /\ ~PassesValidation(call.op, call.args.key) => call.out.engine = <<>>
    /\ PassesValidation(call.op, call.args.key)
         => /\ Len(call.out.engine) = 1
            /\ call.out.engine[1].fn = call.op
            /\ call.out.engine[1].key = call.args.key

C10_Witness ==
  /\ call.op = "decrypt"
  /\ call.out.channel = "rejected"
  /\ Len(call.out.engine) = 1

====
